---------------------------- MODULE Spec2Model ----------------------------
(***************************************************************************)
(* Payment and subscription lifecycle of the VPN bot.                      *)
(*                                                                         *)
(* The persistent store (tables users, payments, subscriptions) is the     *)
(* shared state.  Handlers are asyncio coroutines: they interleave only at *)
(* their await expressions; the code between two awaits of one handler     *)
(* (blocking provider call and session commit included) is one step.       *)
(*                                                                         *)
(* Time is in seconds.  Float columns (total_spent, referral_balance) are  *)
(* held as fixed-point numbers with FloatScale fractional units per unit,  *)
(* so a stored float x is the integer x * FloatScale.                      *)
(*                                                                         *)
(* Spec          payment verification over the store (verify_payment)      *)
(* SpecCreate    the purchase conversation, process_payment step by step   *)
(* SpecCheck     PaymentManager.check_payment over provider responses      *)
(* SpecStart     start_command and its referral branch                     *)
(* SpecSign      CryptomusPayment._generate_signature over requests        *)
(* SpecBroadcast admin_broadcast_confirm                                   *)
(* SpecAdmin     the admin handlers that lead to a broadcast               *)
(***************************************************************************)
EXTENDS Integers, Sequences, FiniteSets, TLC

(* ------------------------------ bounds ------------------------------- *)
MaxPayments == 1
MaxCalls == 2
MaxTicks == 2
MaxRecipients == 100
MaxSignatures == 2
MaxStarts == 2
MaxBroadcasts == 2

(* --------------------------- configuration --------------------------- *)
\* a NULL column value (ids start at 1, timestamps at 0)
NULL == -1

UserIds == {1, 2}

PlanTypes == {"1_month", "3_months", "6_months", "12_months"}

PLAN_1_MONTH_PRICE == 299
PLAN_3_MONTH_PRICE == 799
PLAN_6_MONTH_PRICE == 1499
PLAN_12_MONTH_PRICE == 2699

REFERRAL_BONUS_PERCENT == 10

SUBSCRIPTION_PLANS ==
    [p \in PlanTypes |->
        CASE p = "1_month"   -> [price |-> PLAN_1_MONTH_PRICE,  duration_days |-> 30]
          [] p = "3_months"  -> [price |-> PLAN_3_MONTH_PRICE,  duration_days |-> 90]
          [] p = "6_months"  -> [price |-> PLAN_6_MONTH_PRICE,  duration_days |-> 180]
          [] p = "12_months" -> [price |-> PLAN_12_MONTH_PRICE, duration_days |-> 365]]

\* plan identifiers a caller may pass to calculate_end_date
PlanInputs == PlanTypes \cup {"2_months"}

PaymentMethods == {"yoomoney", "qiwi", "crypto"}

\* the plans and the method the modelled users pick
PlanChoices == {"1_month", "3_months"}
MethodChoices == {"yoomoney"}

\* the canonical vocabulary PaymentManager.check_payment returns
CanonicalStatuses == {"completed", "failed", "pending", "unknown"}

SecondsPerDay == 86400
SecondsPerMinute == 60
\* timedelta(minutes=15)
PaymentLifetimeMinutes == 15
FloatScale == 100
\* the progress message is edited every 50 recipients
ProgressEvery == 50

\* the clock is observed once per payment lifetime
TickSeconds == PaymentLifetimeMinutes * SecondsPerMinute

(* ------------------------------- state ------------------------------- *)
VARIABLES
    now,            \* datetime.utcnow(), seconds
    users,          \* table users: id -> row
    payments,       \* table payments: sequence of rows, id = index
    subscriptions,  \* table subscriptions: sequence of rows, id = index
    handlers,       \* verify_payment coroutines: slot -> locals and position;
                    \* payment_status is "none" until check_payment returned;
                    \* a coroutine that returned keeps what it showed and
                    \* what the provider answered, its references are gone
    calls,          \* verify_payment invocations started so far
    manager,        \* PaymentManager: the methods whose provider is configured
    conv,           \* one user's purchase conversation: user_data, the state
                    \* the last handler returned, and the position and
                    \* locals of process_payment while it runs
    check,          \* one PaymentManager.check_payment call: request,
                    \* provider response and returned value
    bcast,          \* admin_broadcast_confirm: position, counters and the
                    \* sends made so far
    start,          \* start_command: position and locals of the running
                    \* /start, and the number of /start commands so far
    sign,           \* two CryptomusPayment._generate_signature calls
    admin           \* each user's user_data for the broadcast dialogue,
                    \* and what the admin handlers have done so far

vars == <<now, users, payments, subscriptions, handlers, calls,
          manager, conv, check, bcast, start, sign, admin>>
store == <<users, payments, subscriptions>>
\* what the payment verification leaves alone
aside == <<manager, conv, check, bcast, start, sign, admin>>

\* verify_payment coroutines that may be in flight together
HandlerIds == {1, 2}

\* update.effective_user / update.effective_chat of the callback that
\* coroutine h handles: coroutine h serves an update of user h
effective_user(h) == h

IdleHandler ==
    [pc |-> "idle", payment_id |-> NULL, payment_status |-> "none",
     subscription |-> NULL, notified |-> "none", message |-> "none"]

\* the conversation before its first callback: nothing in user_data, no
\* handler running
\* a provider's HTTP answer to a status request: how the exchange ended,
\* the envelope's state (Cryptomus; NULL when absent) and the native
\* status ("missing" when the field is absent)
NoResponse == [transport |-> "none", state |-> NULL, status |-> "missing"]

IdleCheck ==
    [pc |-> "idle", method |-> "none", response |-> NoResponse,
     result |-> "none", contacted |-> "none"]

\* admin_broadcast_confirm before it runs, the text to send being stored
\* in user_data; ok_sends and bad_sends record how the send_message calls
\* ended, attempts the recipients tried, by position in the enumeration,
\* updates the positions after which the progress message was edited,
\* slept whether asyncio.sleep ran since the last send_message
IdleBroadcast ==
    [pc |-> "idle", broadcast_message |-> TRUE, total_users |-> 0, i |-> 0,
     sent_count |-> 0, failed_count |-> 0,
     attempts |-> <<>>, ok_sends |-> 0, bad_sends |-> 0,
     updates |-> <<>>, slept |-> FALSE]

\* no /start is running; while one runs: the user of the update, the code
\* in context.args (NULL without one), whether the attributes of the
\* object get_or_create_user returned can be read, the referrer_id that
\* object holds in memory, the referrer row found; count is the number of
\* /start commands handled so far
IdleStart ==
    [pc |-> "idle", user_id |-> NULL, code |-> NULL, readable |-> TRUE,
     user_referrer_id |-> NULL, referrer |-> NULL, count |-> 0]

\* a CryptomusPayment whose _generate_signature was not called yet: its
\* api_key, and the requests signed so far with their signatures
IdleSign == [api_key |-> "key_a", calls |-> <<>>]

\* Config.ADMIN_IDS: user 1 is the admin
ADMIN_IDS == {1}

\* helpers.is_admin
is_admin(user_id) == user_id \in ADMIN_IDS

\* nothing in any user's user_data and no admin handler has run: per user,
\* user_data['waiting_broadcast'] and whether user_data holds a
\* 'broadcast_message'; the records of what happened: whether the user
\* passed an is_admin check, ran admin_broadcast_start, how many texts
\* were captured from them and how many broadcasts they dispatched, the
\* user of the last update and the last message shown
IdleAdmin ==
    [waiting_broadcast |-> [u \in UserIds |-> FALSE],
     broadcast_message |-> [u \in UserIds |-> FALSE],
     checked |-> [u \in UserIds |-> FALSE],
     started |-> [u \in UserIds |-> FALSE],
     captures |-> [u \in UserIds |-> 0],
     dispatched |-> [u \in UserIds |-> 0],
     user |-> NULL,
     reply |-> "none"]

IdleConv ==
    [user_id |-> 1, state |-> "END", selected_plan |-> "none",
     pc |-> "idle", method |-> "none", payment |-> NULL,
     provider |-> "not_called", message |-> "none", raised |-> "none"]

(* ------------------------- pure functions ---------------------------- *)
\* int / int as a float, in fixed point
FloatDiv(n, d) == (n * FloatScale) \div d

\* Payment.amount_rubles: self.amount / 100
amount_rubles(p) == FloatDiv(p.amount, 100)

\* mutants of is_expired: the comparison inverted; expiry tied to a
\* status other than pending
is_expired_inverted(p, t) == p.expires_at # NULL /\ t < p.expires_at
is_expired_unless_pending(p, t) ==
    p.expires_at # NULL /\ t > p.expires_at /\ p.status # "pending"

\* Payment.is_expired: self.expires_at and datetime.utcnow() > self.expires_at
is_expired(p, t) == p.expires_at # NULL /\ t > p.expires_at

\* Subscription.is_expired
sub_is_expired(s, t) == t > s.end_date

\* mutant of calculate_end_date: timedelta(seconds=...) for timedelta(days=...)
calculate_end_date_seconds(plan_type, t) ==
    IF plan_type \in DOMAIN SUBSCRIPTION_PLANS
    THEN [raised |-> FALSE,
          value |-> t + SUBSCRIPTION_PLANS[plan_type].duration_days]
    ELSE [raised |-> TRUE, value |-> NULL]

\* calculate_end_date: raises ValueError for a plan that is not configured
calculate_end_date(plan_type, t) ==
    IF plan_type \in DOMAIN SUBSCRIPTION_PLANS
    THEN [raised |-> FALSE,
          value |-> t + SUBSCRIPTION_PLANS[plan_type].duration_days * SecondsPerDay]
    ELSE [raised |-> TRUE, value |-> NULL]

\* calculate_referral_bonus: int(amount * percent / 100)
calculate_referral_bonus(amount) == (amount * REFERRAL_BONUS_PERCENT) \div 100

\* the answers a provider can give for a payment; a payment the provider
\* never created (no external id) is never reported paid or refused
ProviderAnswers(p) ==
    IF p.payment_id = NULL THEN {"pending", "unknown"} ELSE CanonicalStatuses

\* how a status request can end: a parsed JSON object, a connection error
\* or timeout, an HTTP error status, a body that is not JSON, a JSON body
\* whose fields do not have the expected shape
Transports == {"ok", "network_error", "http_error", "bad_json", "bad_shape"}

\* native status words of the three providers, and one none of them knows
NativeStatuses ==
    {"success", "refused", "failed", "in_progress",
     "PAID", "REJECTED", "EXPIRED", "WAITING",
     "paid", "fail", "cancel", "system_fail", "check",
     "other", "missing"}

Responses ==
    [transport : Transports, state : {0, 1, NULL}, status : NativeStatuses]

\* YooMoneyPayment.check_payment
YooMoney_check_payment(resp) ==
    IF resp.transport # "ok" THEN "unknown"
    ELSE LET status == IF resp.status = "missing" THEN "unknown"
                       ELSE resp.status
         IN IF status = "success" THEN "completed"
            ELSE IF status \in {"refused", "failed"} THEN "failed"
            ELSE "pending"

\* QiwiPayment.check_payment
Qiwi_check_payment(resp) ==
    IF resp.transport # "ok" THEN "unknown"
    ELSE LET status == IF resp.status = "missing" THEN "unknown"
                       ELSE resp.status
         IN IF status = "PAID" THEN "completed"
            ELSE IF status \in {"REJECTED", "EXPIRED"} THEN "failed"
            ELSE "pending"

\* mutant of Cryptomus_check_payment: the envelope's state is not looked at
Cryptomus_check_payment_any_state(resp) ==
    IF resp.transport # "ok" THEN "unknown"
    ELSE IF resp.status = "paid" THEN "completed"
    ELSE IF resp.status \in {"fail", "cancel", "system_fail"} THEN "failed"
    ELSE "pending"

\* CryptomusPayment.check_payment
Cryptomus_check_payment(resp) ==
    IF resp.transport # "ok" THEN "unknown"
    ELSE IF resp.state = 0
    THEN IF resp.status = "paid" THEN "completed"
         ELSE IF resp.status \in {"fail", "cancel", "system_fail"} THEN "failed"
         ELSE "pending"
    ELSE "unknown"

\* the method a check can be asked for: the three known ones and one that
\* does not exist
MethodNames == PaymentMethods \cup {"paypal"}

\* PaymentManager.check_payment
check_payment(mgr, method, resp) ==
    IF method = "yoomoney" /\ "yoomoney" \in mgr
    THEN YooMoney_check_payment(resp)
    ELSE IF method = "qiwi" /\ "qiwi" \in mgr
    THEN Qiwi_check_payment(resp)
    ELSE IF method = "crypto" /\ "crypto" \in mgr
    THEN Cryptomus_check_payment(resp)
    ELSE "unknown"

\* PaymentManager.get_available_methods: the methods whose provider was
\* constructed, in the order yoomoney, qiwi, crypto
get_available_methods(mgr) ==
    SelectSeq(<<"yoomoney", "qiwi", "crypto">>, LAMBDA m : m \in mgr)

\* the provider object whose method the manager calls for a method name
\* (`method == 'yoomoney' and self.yoomoney`, ...), "none" in the else
\* branch; the same chain in create_payment and check_payment
provider_called(mgr, method) ==
    IF method = "yoomoney" /\ "yoomoney" \in mgr THEN "yoomoney"
    ELSE IF method = "qiwi" /\ "qiwi" \in mgr THEN "qiwi"
    ELSE IF method = "crypto" /\ "crypto" \in mgr THEN "crypto"
    ELSE "none"

\* what a provider's create call can end in
CreateOutcomes == {"created", "connection_error", "rejected", "malformed"}

\* the method a `pay_...` callback can carry: the configured one, one that
\* is not configured, one that does not exist
MethodInputs == MethodChoices \cup {"qiwi", "paypal"}

\* the plan a `plan_...` callback can carry: the offered ones and one that
\* is not configured
PlanCallbacks == PlanChoices \cup (PlanInputs \ PlanTypes)

\* mutant of create_payment: a known method gets its payment whether or
\* not its provider is configured
create_payment_unconfigured(mgr, method, outcome, id) ==
    IF method \in PaymentMethods /\ outcome = "created"
    THEN [raised |-> "none", payment_id |-> id]
    ELSE [raised |-> "PaymentError", payment_id |-> NULL]

\* PaymentManager.create_payment: the provider's data, or PaymentError when
\* the method has no configured provider or the provider's create fails
create_payment(mgr, method, outcome, id) ==
    IF method \in PaymentMethods /\ method \in mgr /\ outcome = "created"
    THEN [raised |-> "none", payment_id |-> id]
    ELSE [raised |-> "PaymentError", payment_id |-> NULL]

\* int((expires_at - utcnow()).total_seconds() / 60); int() truncates to zero
time_left(p, t) ==
    IF p.expires_at >= t
    THEN (p.expires_at - t) \div SecondsPerMinute
    ELSE -((t - p.expires_at) \div SecondsPerMinute)

(* ------------------------------- Init -------------------------------- *)
\* user 1 was referred by user 2
InitUsers ==
    [u \in UserIds |->
       [referrer_id |-> IF u = 1 THEN 2 ELSE NULL,
        referral_balance |-> 0,
        total_referrals |-> IF u = 2 THEN 1 ELSE 0,
        total_spent |-> 0]]

InitStore ==
    /\ now = 0
    /\ users = InitUsers
    /\ payments = <<>>
    /\ subscriptions = <<>>
    /\ handlers = [h \in HandlerIds |-> IdleHandler]
    /\ calls = 0

Init ==
    /\ InitStore
    /\ manager = MethodChoices
    /\ conv = IdleConv
    /\ check = IdleCheck
    /\ bcast = IdleBroadcast
    /\ start = IdleStart
    /\ sign = IdleSign
    /\ admin = IdleAdmin

(* ------------------------------ actions ------------------------------ *)
\* the clock advances
Tick ==
    /\ now + TickSeconds <= MaxTicks * TickSeconds
    /\ now' = now + TickSeconds
    /\ UNCHANGED <<users, payments, subscriptions, handlers, calls, aside>>

\* mutant of NewPayment: the price is stored without the conversion to
\* kopecks
NewPayment_rubles(u, plan_type, method, external_id, t) ==
    [user_id |-> u,
     amount |-> SUBSCRIPTION_PLANS[plan_type].price,
     plan_type |-> plan_type,
     payment_method |-> method,
     payment_id |-> external_id,
     status |-> "pending",
     created_at |-> t,
     completed_at |-> NULL,
     expires_at |-> t + PaymentLifetimeMinutes * SecondsPerMinute]

\* mutant of NewPayment: the record expires at the moment it is created
NewPayment_no_lifetime(u, plan_type, method, external_id, t) ==
    [user_id |-> u,
     amount |-> SUBSCRIPTION_PLANS[plan_type].price * 100,
     plan_type |-> plan_type,
     payment_method |-> method,
     payment_id |-> external_id,
     status |-> "pending",
     created_at |-> t,
     completed_at |-> NULL,
     expires_at |-> t]

\* the Payment row process_payment builds and commits
NewPayment(u, plan_type, method, external_id, t) ==
    [user_id |-> u,
     amount |-> SUBSCRIPTION_PLANS[plan_type].price * 100,
     plan_type |-> plan_type,
     payment_method |-> method,
     payment_id |-> external_id,
     status |-> "pending",
     created_at |-> t,
     completed_at |-> NULL,
     expires_at |-> t + PaymentLifetimeMinutes * SecondsPerMinute]

\* process_payment: the record is committed, then the provider is asked to
\* create the payment; on PaymentError the record stays without external id
process_payment(u, plan_type, method, created) ==
    /\ Len(payments) < MaxPayments
    /\ payments' = Append(payments,
           NewPayment(u, plan_type, method,
                      IF created THEN Len(payments) + 1 ELSE NULL, now))
    /\ UNCHANGED <<now, users, subscriptions, handlers, calls, aside>>


(* ------------------------- verify_payment ---------------------------- *)
\* the callback arrives and `await query.answer(...)` returns
verify_start(h, pid) ==
    /\ handlers[h].pc \in {"idle", "done"}
    /\ \A g \in HandlerIds : g < h => handlers[g].pc \notin {"idle", "done"}
    /\ calls < MaxCalls
    /\ handlers' = [handlers EXCEPT ![h] =
           [IdleHandler EXCEPT !.pc = "answered", !.payment_id = pid]]
    /\ calls' = calls + 1
    /\ UNCHANGED <<now, users, payments, subscriptions, aside>>

\* session.query(Payment).filter_by(id=payment_id).first() is None
verify_not_found(h) ==
    /\ handlers[h].pc = "answered"
    /\ handlers[h].payment_id \notin DOMAIN payments
    /\ handlers' = [handlers EXCEPT ![h].pc = "done", ![h].payment_id = NULL,
                                    ![h].message = "not_found"]
    /\ UNCHANGED <<now, users, payments, subscriptions, calls, aside>>

\* `if payment.is_expired:` the timeout message is shown and the handler ends
verify_expired(h) ==
    /\ handlers[h].pc = "answered"
    /\ handlers[h].payment_id \in DOMAIN payments
    /\ is_expired(payments[handlers[h].payment_id], now)
    /\ handlers' = [handlers EXCEPT ![h].pc = "done", ![h].payment_id = NULL,
                                    ![h].message = "error_payment_timeout"]
    /\ UNCHANGED <<now, users, payments, subscriptions, calls, aside>>

\* the handler reaches payment_manager.check_payment(...)
AtCheck(h) ==
    /\ handlers[h].pc = "answered"
    /\ handlers[h].payment_id \in DOMAIN payments
    /\ ~is_expired(payments[handlers[h].payment_id], now)

\* mutant of DeactivateOld: the old subscriptions are left as they are
DeactivateOld_skipped(subs, uid) == subs

\* `for sub in old_subs: sub.is_active = False`
DeactivateOld(subs, uid) ==
    [i \in DOMAIN subs |->
        IF subs[i].user_id = uid /\ subs[i].is_active
        THEN [subs[i] EXCEPT !.is_active = FALSE]
        ELSE subs[i]]

\* the Subscription row built for a completed payment
NewSubscription(p, t) ==
    [user_id |-> p.user_id,
     plan_type |-> p.plan_type,
     start_date |-> t,
     end_date |-> calculate_end_date(p.plan_type, t).value,
     is_active |-> TRUE]

\* payment.status = 'completed'; payment.completed_at = datetime.utcnow()
MarkCompleted(p, t) == [p EXCEPT !.status = "completed", !.completed_at = t]

\* user.total_spent += payment.amount_rubles
AddSpent(us, p) ==
    [us EXCEPT ![p.user_id].total_spent = @ + amount_rubles(p)]

\* `if user.referrer_id:` and the referrer row exists
HasReferrer(us, uid) ==
    /\ us[uid].referrer_id # NULL
    /\ us[uid].referrer_id # 0
    /\ us[uid].referrer_id \in DOMAIN us

\* referrer.referral_balance += bonus / 100
CreditReferrer(us, p) ==
    IF HasReferrer(us, p.user_id)
    THEN [us EXCEPT ![us[p.user_id].referrer_id].referral_balance =
              @ + FloatDiv(calculate_referral_bonus(p.amount), 100)]
    ELSE us

\* mutant of verify_completed: the status is committed on its own before
\* the subscription is built, and stays when building fails
verify_completed_status_first(h, built) ==
    /\ AtCheck(h)
    /\ "completed" \in ProviderAnswers(payments[handlers[h].payment_id])
    /\ LET pid == handlers[h].payment_id
           p == payments[pid]
       IN IF ~built \/ calculate_end_date(p.plan_type, now).raised
          THEN
               /\ handlers' = [handlers EXCEPT ![h].pc = "done", ![h].payment_id = NULL,
                      ![h].payment_status = "completed",
                      ![h].message = "error_general"]
               /\ payments' = [payments EXCEPT ![pid] = MarkCompleted(p, now)]
               /\ UNCHANGED <<users, subscriptions>>
          ELSE /\ payments' = [payments EXCEPT ![pid] = MarkCompleted(p, now)]
               /\ users' = CreditReferrer(AddSpent(users, p), p)
               /\ subscriptions' =
                      Append(DeactivateOld(subscriptions, p.user_id),
                             NewSubscription(p, now))
               /\ handlers' = [handlers EXCEPT
                      ![h].pc = IF HasReferrer(users, p.user_id)
                                THEN "notify" ELSE "reply",
                      ![h].payment_status = "completed",
                      ![h].subscription = Len(subscriptions) + 1]
    /\ UNCHANGED <<now, calls, aside>>

\* mutant of verify_completed: the referrer is notified before anything
\* is committed
verify_completed_notify_first(h, built) ==
    /\ AtCheck(h)
    /\ "completed" \in ProviderAnswers(payments[handlers[h].payment_id])
    /\ handlers' = [handlers EXCEPT
           ![h].pc = IF HasReferrer(users, payments[handlers[h].payment_id].user_id)
                     THEN "notify" ELSE "reply",
           ![h].payment_status = "completed"]
    /\ UNCHANGED <<now, users, payments, subscriptions, calls, aside>>

\* payment_status == 'completed': the subscription is created and committed
\* with the status, the deactivations, total_spent and the referral credit;
\* if a statement before the commit, or the commit, raises (built is
\* FALSE: a database error, the credential generation failing), nothing
\* is committed and the general error is shown
verify_completed(h, built) ==
    /\ AtCheck(h)
    /\ "completed" \in ProviderAnswers(payments[handlers[h].payment_id])
    /\ LET pid == handlers[h].payment_id
           p == payments[pid]
       IN IF ~built \/ calculate_end_date(p.plan_type, now).raised
          THEN \* nothing is committed, the session is closed
               /\ handlers' = [handlers EXCEPT ![h].pc = "done", ![h].payment_id = NULL,
                      ![h].payment_status = "completed",
                      ![h].message = "error_general"]
               /\ UNCHANGED <<users, payments, subscriptions>>
          ELSE /\ payments' = [payments EXCEPT ![pid] = MarkCompleted(p, now)]
               /\ users' = CreditReferrer(AddSpent(users, p), p)
               /\ subscriptions' =
                      Append(DeactivateOld(subscriptions, p.user_id),
                             NewSubscription(p, now))
               /\ handlers' = [handlers EXCEPT
                      ![h].pc = IF HasReferrer(users, p.user_id)
                                THEN "notify" ELSE "reply",
                      ![h].payment_status = "completed",
                      ![h].subscription = Len(subscriptions) + 1]
    /\ UNCHANGED <<now, calls, aside>>

\* mutant of verify_failed: completed_at is stamped on a failed payment
verify_failed_stamped(h) ==
    /\ AtCheck(h)
    /\ "failed" \in ProviderAnswers(payments[handlers[h].payment_id])
    /\ payments' = [payments EXCEPT
           ![handlers[h].payment_id].status = "failed",
           ![handlers[h].payment_id].completed_at = now]
    /\ handlers' = [handlers EXCEPT ![h].pc = "done", ![h].payment_id = NULL,
           ![h].payment_status = "failed",
           ![h].message = "payment_failed"]
    /\ UNCHANGED <<now, users, subscriptions, calls, aside>>

\* payment_status == 'failed'
verify_failed(h) ==
    /\ AtCheck(h)
    /\ "failed" \in ProviderAnswers(payments[handlers[h].payment_id])
    /\ payments' = [payments EXCEPT ![handlers[h].payment_id].status = "failed"]
    /\ handlers' = [handlers EXCEPT ![h].pc = "done", ![h].payment_id = NULL,
           ![h].payment_status = "failed",
           ![h].message = "payment_failed"]
    /\ UNCHANGED <<now, users, subscriptions, calls, aside>>

\* mutant of verify_pending: an unknown answer is stored as a failure
verify_pending_unknown_fails(h, answer) ==
    /\ AtCheck(h)
    /\ answer \in ProviderAnswers(payments[handlers[h].payment_id])
    /\ answer \notin {"completed", "failed"}
    /\ payments' = [payments EXCEPT ![handlers[h].payment_id].status =
           IF answer = "unknown" THEN "failed" ELSE @]
    /\ handlers' = [handlers EXCEPT ![h].pc = "done", ![h].payment_id = NULL,
           ![h].payment_status = answer,
           ![h].message =
               IF time_left(payments[handlers[h].payment_id], now) > 0
               THEN "payment_pending" ELSE "error_payment_timeout"]
    /\ UNCHANGED <<now, users, subscriptions, calls, aside>>

\* else: pending or unknown
verify_pending(h, answer) ==
    /\ AtCheck(h)
    /\ answer \in ProviderAnswers(payments[handlers[h].payment_id])
    /\ answer \notin {"completed", "failed"}
    /\ handlers' = [handlers EXCEPT ![h].pc = "done", ![h].payment_id = NULL,
           ![h].payment_status = answer,
           ![h].message =
               IF time_left(payments[handlers[h].payment_id], now) > 0
               THEN "payment_pending" ELSE "error_payment_timeout"]
    /\ UNCHANGED <<now, users, payments, subscriptions, calls, aside>>

\* mutant of verify_notify: a notification that fails undoes the
\* activation and ends the handler
verify_notify_undo(h, delivered) ==
    /\ handlers[h].pc = "notify"
    /\ IF delivered
       THEN /\ handlers' = [handlers EXCEPT ![h].pc = "reply",
                                            ![h].notified = "delivered"]
            /\ UNCHANGED <<payments, subscriptions>>
       ELSE /\ handlers' = [handlers EXCEPT ![h].pc = "done",
                   ![h].payment_id = NULL, ![h].subscription = NULL,
                   ![h].message = "error_general"]
            /\ payments' = [payments EXCEPT
                   ![handlers[h].payment_id].status = "pending",
                   ![handlers[h].payment_id].completed_at = NULL]
            /\ subscriptions' = [subscriptions EXCEPT
                   ![handlers[h].subscription].is_active = FALSE]
    /\ UNCHANGED <<now, users, calls, aside>>

\* `await context.bot.send_message(referrer...)`, after the commit of the
\* activation: a failure is caught and logged; the second session.commit()
\* has nothing left to write
verify_notify(h, delivered) ==
    /\ handlers[h].pc = "notify"
    /\ handlers' = [handlers EXCEPT
           ![h].pc = "reply",
           ![h].notified = IF delivered THEN "delivered" ELSE "failed"]
    /\ UNCHANGED <<now, users, payments, subscriptions, calls, aside>>

\* the success message, the config file, the QR code and the main menu are
\* sent; if one of the sends raises, the general error message is shown
verify_reply(h, sent) ==
    /\ handlers[h].pc = "reply"
    /\ handlers' = [handlers EXCEPT ![h].pc = "done", ![h].payment_id = NULL,
           ![h].subscription = NULL, ![h].notified = "none",
           ![h].message = IF sent THEN "payment_success" ELSE "error_general"]
    /\ UNCHANGED <<now, users, payments, subscriptions, calls, aside>>

(* --------------------- the purchase conversation --------------------- *)
\* show_plans: the plan buttons are shown
show_plans ==
    /\ conv.pc = "idle"
    /\ conv.state = "END"
    /\ conv' = [conv EXCEPT !.state = "SELECTING_PLAN", !.message = "choose_plan"]
    /\ UNCHANGED <<now, users, payments, subscriptions, handlers, calls,
                   manager, check, bcast, start, sign,
                   admin>>

\* select_payment_method: the plan of the callback is stored in user_data,
\* then looked up
select_payment_method(plan_type) ==
    /\ conv.pc = "idle"
    /\ conv' = [conv EXCEPT
           !.selected_plan = plan_type,
           !.state = IF plan_type \in DOMAIN SUBSCRIPTION_PLANS
                     THEN "SELECTING_PAYMENT_METHOD" ELSE "END",
           !.message = IF plan_type \in DOMAIN SUBSCRIPTION_PLANS
                       THEN "payment_methods" ELSE "invalid_plan",
           !.raised = "none"]
    /\ UNCHANGED <<now, users, payments, subscriptions, handlers, calls,
                   manager, check, bcast, start, sign,
                   admin>>

\* process_payment: the callback arrives and `await query.answer(...)` returns
pp_start(method) ==
    /\ conv.pc = "idle"
    /\ conv' = [conv EXCEPT !.pc = "answered", !.method = method,
                            !.payment = NULL, !.provider = "not_called",
                            !.message = "none", !.raised = "none"]
    /\ UNCHANGED <<now, users, payments, subscriptions, handlers, calls,
                   manager, check, bcast, start, sign,
                   admin>>

\* `if not plan_type:` nothing was selected
pp_no_plan ==
    /\ conv.pc = "answered"
    /\ conv.selected_plan = "none"
    /\ conv' = [conv EXCEPT !.pc = "idle", !.state = "END",
                            !.message = "no_plan"]
    /\ UNCHANGED <<now, users, payments, subscriptions, handlers, calls,
                   manager, check, bcast, start, sign,
                   admin>>

\* `plan = SUBSCRIPTION_PLANS[plan_type]` outside the try: KeyError leaves
\* the handler, the conversation state is not changed
pp_unknown_plan ==
    /\ conv.pc = "answered"
    /\ conv.selected_plan # "none"
    /\ conv.selected_plan \notin DOMAIN SUBSCRIPTION_PLANS
    /\ conv' = [conv EXCEPT !.pc = "idle", !.raised = "KeyError"]
    /\ UNCHANGED <<now, users, payments, subscriptions, handlers, calls,
                   manager, check, bcast, start, sign,
                   admin>>

\* mutant of pp_commit: the row is added to the session but not committed
pp_commit_unflushed(committed) ==
    /\ conv.pc = "answered"
    /\ conv.selected_plan \in DOMAIN SUBSCRIPTION_PLANS
    /\ Len(payments) < MaxPayments
    /\ conv' = [conv EXCEPT !.pc = "committed",
                            !.payment = Len(payments) + 1]
    /\ UNCHANGED <<now, users, payments, subscriptions, handlers, calls,
                   manager, check, bcast, start, sign,
                   admin>>

\* session.add(payment); session.commit(); a commit that raises goes to
\* `except Exception`
pp_commit(committed) ==
    /\ conv.pc = "answered"
    /\ conv.selected_plan \in DOMAIN SUBSCRIPTION_PLANS
    /\ Len(payments) < MaxPayments
    /\ IF committed
       THEN /\ payments' = Append(payments,
                   NewPayment(conv.user_id, conv.selected_plan, conv.method,
                              NULL, now))
            /\ conv' = [conv EXCEPT !.pc = "committed",
                                    !.payment = Len(payments) + 1]
       ELSE /\ conv' = [conv EXCEPT !.pc = "idle", !.state = "END",
                                    !.message = "error_general"]
            /\ UNCHANGED payments
    /\ UNCHANGED <<now, users, subscriptions, handlers, calls,
                   manager, check, bcast, start, sign,
                   admin>>

\* the process stops between the commit and the provider's create
pp_stop ==
    /\ conv.pc = "committed"
    /\ conv' = [conv EXCEPT !.pc = "stopped"]
    /\ UNCHANGED <<now, users, payments, subscriptions, handlers, calls,
                   manager, check, bcast, start, sign,
                   admin>>

\* payment_manager.create_payment(...): the external id is stored, or
\* PaymentError is shown to the user and the conversation ends
pp_create(outcome) ==
    /\ conv.pc = "committed"
    /\ LET r == create_payment(manager, conv.method, outcome, conv.payment)
       IN IF r.raised = "none"
          THEN /\ payments' = [payments EXCEPT
                      ![conv.payment].payment_id = r.payment_id]
               /\ conv' = [conv EXCEPT !.pc = "created",
                                       !.provider = "created"]
          ELSE /\ conv' = [conv EXCEPT !.pc = "idle", !.state = "END",
                                       !.provider = "failed",
                                       !.message = "payment_error"]
               /\ UNCHANGED payments
    /\ UNCHANGED <<now, users, subscriptions, handlers, calls,
                   manager, check, bcast, start, sign,
                   admin>>

\* the pay link is shown; if the edit raises, the general error is shown
pp_show(sent) ==
    /\ conv.pc = "created"
    /\ conv' = [conv EXCEPT !.pc = "idle",
           !.state = IF sent THEN "WAITING_PAYMENT" ELSE "END",
           !.message = IF sent THEN "payment_created" ELSE "error_general"]
    /\ UNCHANGED <<now, users, payments, subscriptions, handlers, calls,
                   manager, check, bcast, start, sign,
                   admin>>

NextCreate ==
    \/ Tick
    \/ show_plans
    \/ \E plan_type \in PlanCallbacks : select_payment_method(plan_type)
    \/ \E method \in MethodInputs : pp_start(method)
    \/ pp_no_plan
    \/ pp_unknown_plan
    \/ \E committed \in BOOLEAN : pp_commit(committed)
    \/ pp_stop
    \/ \E outcome \in CreateOutcomes : pp_create(outcome)
    \/ \E sent \in BOOLEAN : pp_show(sent)

SpecCreate == Init /\ [][NextCreate]_vars

(* ------------------------- the status check -------------------------- *)
\* payment_manager.check_payment(method, payment_id) is called and the
\* provider, if one is asked, answers with resp
check_call(method, resp) ==
    /\ check.pc = "idle"
    /\ check' = [pc |-> "called", method |-> method, response |-> resp,
                 result |-> "none", contacted |-> "none"]
    /\ UNCHANGED <<now, users, payments, subscriptions, handlers, calls,
                   manager, conv, bcast, start, sign,
                   admin>>

\* the call returns its canonical status
check_return ==
    /\ check.pc = "called"
    /\ check' = [check EXCEPT !.pc = "returned",
           !.contacted = provider_called(manager, check.method),
           !.result = check_payment(manager, check.method, check.response)]
    /\ UNCHANGED <<now, users, payments, subscriptions, handlers, calls,
                   manager, conv, bcast, start, sign,
                   admin>>

\* payment_manager.create_payment(method, ...) is called; the provider, if
\* one is asked, ends its create call in `outcome`; the call returns the
\* provider's data ("payment") or raises PaymentError
create_call(method, outcome) ==
    /\ check.pc = "idle"
    /\ check' = [IdleCheck EXCEPT
           !.pc = "create_returned",
           !.method = method,
           !.contacted = provider_called(manager, method),
           !.result = IF create_payment(manager, method, outcome, 1).raised
                         = "none"
                      THEN "payment" ELSE "PaymentError"]
    /\ UNCHANGED <<now, users, payments, subscriptions, handlers, calls,
                   manager, conv, bcast, start, sign,
                   admin>>

\* PaymentManager.__init__: any of the three tokens may be set
InitCheck ==
    /\ InitStore
    /\ manager \in SUBSET PaymentMethods
    /\ conv = IdleConv
    /\ check = IdleCheck
    /\ bcast = IdleBroadcast
    /\ start = IdleStart
    /\ sign = IdleSign
    /\ admin = IdleAdmin

NextCheck ==
    \/ \E method \in MethodNames, resp \in Responses : check_call(method, resp)
    \/ check_return
    \/ \E method \in MethodNames, outcome \in CreateOutcomes :
           create_call(method, outcome)

SpecCheck == InitCheck /\ [][NextCheck]_vars

(* ------------------------------ /start ------------------------------ *)
\* the users of the /start runs: a third user, referred by no one
StartUsers ==
    [u \in UserIds \cup {3} |->
       IF u \in UserIds THEN InitUsers[u]
       ELSE [referrer_id |-> NULL, referral_balance |-> 0,
             total_referrals |-> 0, total_spent |-> 0]]

\* context.args[0]: user u's referral_code is u, 0 is the code of no user
ReferralCodes == DOMAIN StartUsers \cup {0}

\* session.query(User).filter_by(referral_code=referral_code).first()
referrer_of(us, code) == IF code \in DOMAIN us THEN code ELSE NULL

\* mutant of start_begin: the referral branch is not guarded by
\* `user.referrer_id is None` and the new referrer is stored
start_begin_rebinds(u, code, readable) ==
    /\ start.pc \in {"idle", "done", "raised"}
    /\ start.count < MaxStarts
    /\ LET referrer == referrer_of(users, code)
           refers == code # NULL /\ readable /\ referrer # NULL /\ referrer # u
       IN /\ start' = [start EXCEPT
                 !.count = @ + 1,
                 !.user_id = u,
                 !.code = code,
                 !.readable = readable,
                 !.user_referrer_id = IF refers THEN referrer
                                      ELSE users[u].referrer_id,
                 !.referrer = IF refers THEN referrer ELSE NULL,
                 !.pc = IF code # NULL /\ ~readable THEN "raised"
                        ELSE IF refers THEN "notify" ELSE "reply"]
          /\ users' = IF refers
                      THEN [users EXCEPT ![referrer].total_referrals = @ + 1,
                                         ![u].referrer_id = referrer]
                      ELSE users
    /\ UNCHANGED <<now, payments, subscriptions, handlers, calls,
                   manager, conv, check, bcast, sign,
                   admin>>

\* start_command up to its first await: get_or_create_user returns the
\* user's object, committed and detached from its closed session; with a
\* code in context.args the object's referrer_id is read (which raises if
\* the detached object cannot be read); if it is None the referrer is
\* looked up, the object's referrer_id is assigned in memory only (the
\* object belongs to no session), referrer.total_referrals += 1 and the
\* new session is committed
start_begin(u, code, readable) ==
    /\ start.pc \in {"idle", "done", "raised"}
    /\ start.count < MaxStarts
    /\ LET referrer == referrer_of(users, code)
           refers == /\ code # NULL
                     /\ readable
                     /\ users[u].referrer_id = NULL
                     /\ referrer # NULL
                     /\ referrer # u
       IN /\ start' = [start EXCEPT
                 !.count = @ + 1,
                 !.user_id = u,
                 !.code = code,
                 !.readable = readable,
                 !.user_referrer_id = IF refers THEN referrer
                                      ELSE users[u].referrer_id,
                 !.referrer = IF refers THEN referrer ELSE NULL,
                 !.pc = IF code # NULL /\ ~readable THEN "raised"
                        ELSE IF refers THEN "notify" ELSE "reply"]
          /\ users' = IF refers
                      THEN [users EXCEPT ![referrer].total_referrals = @ + 1]
                      ELSE users
    /\ UNCHANGED <<now, payments, subscriptions, handlers, calls,
                   manager, conv, check, bcast, sign,
                   admin>>

\* `await context.bot.send_message(referrer...)` in try/except
start_notify(delivered) ==
    /\ start.pc = "notify"
    /\ start' = [start EXCEPT !.pc = "reply"]
    /\ UNCHANGED <<now, users, payments, subscriptions, handlers, calls,
                   manager, conv, check, bcast, sign,
                   admin>>

\* user.created_at and user.has_active_subscription are read and the
\* welcome message is sent; the handler raises if the object cannot be
\* read or the send fails
start_reply(sent) ==
    /\ start.pc = "reply"
    /\ start' = [IdleStart EXCEPT
           !.count = start.count,
           !.pc = IF start.readable /\ sent THEN "done" ELSE "raised"]
    /\ UNCHANGED <<now, users, payments, subscriptions, handlers, calls,
                   manager, conv, check, bcast, sign,
                   admin>>

InitStart ==
    /\ now = 0
    /\ users = StartUsers
    /\ payments = <<>>
    /\ subscriptions = <<>>
    /\ handlers = [h \in HandlerIds |-> IdleHandler]
    /\ calls = 0
    /\ manager = MethodChoices
    /\ conv = IdleConv
    /\ check = IdleCheck
    /\ bcast = IdleBroadcast
    /\ start = IdleStart
    /\ sign = IdleSign
    /\ admin = IdleAdmin

NextStart ==
    \/ \E u \in DOMAIN users, code \in ReferralCodes \cup {NULL},
          readable \in BOOLEAN : start_begin(u, code, readable)
    \/ \E delivered \in BOOLEAN : start_notify(delivered)
    \/ \E sent \in BOOLEAN : start_reply(sent)

SpecStart == InitStart /\ [][NextStart]_vars

(* ----------------------- the broadcast dialogue --------------------- *)
\* the `admin_...` callback data admin_callback_handler is given
AdminActions == {"broadcast", "refresh", "broadcast_confirm"}

\* admin_broadcast_start: the instructions are shown and
\* user_data['waiting_broadcast'] = True
admin_broadcast_start(u) ==
    /\ admin' = [admin EXCEPT
           !.started[u] = TRUE,
           !.waiting_broadcast[u] = TRUE,
           !.user = u,
           !.reply = "broadcast_start"]
    /\ UNCHANGED <<now, users, payments, subscriptions, handlers, calls,
                   manager, conv, check, bcast, start, sign>>

\* admin_callback_handler: a user who is not an admin is refused; the
\* action 'broadcast' runs admin_broadcast_start, 'refresh' shows the
\* panel, an action outside the chain does nothing
admin_callback_handler(u, action) ==
    /\ admin' =
           IF ~is_admin(u)
           THEN [admin EXCEPT !.user = u, !.reply = "admin_not_authorized"]
           ELSE IF action = "broadcast"
           THEN [admin EXCEPT
                   !.checked[u] = TRUE,
                   !.started[u] = TRUE,
                   !.waiting_broadcast[u] = TRUE,
                   !.user = u,
                   !.reply = "broadcast_start"]
           ELSE [admin EXCEPT
                   !.checked[u] = TRUE,
                   !.user = u,
                   !.reply = IF action = "refresh" THEN "admin_panel"
                             ELSE "none"]
    /\ UNCHANGED <<now, users, payments, subscriptions, handlers, calls,
                   manager, conv, check, bcast, start, sign>>

\* mutant of handle_broadcast_message: the text of any user who is
\* waiting is captured
handle_broadcast_message_unchecked(u) ==
    /\ admin.captures[u] < MaxBroadcasts
    /\ admin' =
           IF ~admin.waiting_broadcast[u]
           THEN [admin EXCEPT !.user = u, !.reply = "none"]
           ELSE [admin EXCEPT
                   !.waiting_broadcast[u] = FALSE,
                   !.broadcast_message[u] = TRUE,
                   !.captures[u] = @ + 1,
                   !.user = u,
                   !.reply = "broadcast_confirm"]
    /\ UNCHANGED <<now, users, payments, subscriptions, handlers, calls,
                   manager, conv, check, bcast, start, sign>>

\* handle_broadcast_message: ignored unless the sender is an admin whose
\* user_data says waiting_broadcast; else the text is stored in
\* user_data['broadcast_message'] and the confirmation is asked
handle_broadcast_message(u) ==
    /\ admin.captures[u] < MaxBroadcasts
    /\ admin' =
           IF ~is_admin(u) \/ ~admin.waiting_broadcast[u]
           THEN [admin EXCEPT !.user = u, !.reply = "none"]
           ELSE [admin EXCEPT
                   !.checked[u] = TRUE,
                   !.waiting_broadcast[u] = FALSE,
                   !.broadcast_message[u] = TRUE,
                   !.captures[u] = @ + 1,
                   !.user = u,
                   !.reply = "broadcast_confirm"]
    /\ UNCHANGED <<now, users, payments, subscriptions, handlers, calls,
                   manager, conv, check, bcast, start, sign>>

\* admin_broadcast_confirm as one step: without a text in the issuer's
\* user_data "not found" is shown; else the text is sent to every user
\* and the report is shown; user_data is left as it is
admin_broadcast_confirm(u) ==
    /\ admin.dispatched[u] < MaxBroadcasts
    /\ admin' =
           IF ~admin.broadcast_message[u]
           THEN [admin EXCEPT !.user = u, !.reply = "not_found"]
           ELSE [admin EXCEPT
                   !.dispatched[u] = @ + 1,
                   !.user = u,
                   !.reply = "broadcast_success"]
    /\ UNCHANGED <<now, users, payments, subscriptions, handlers, calls,
                   manager, conv, check, bcast, start, sign>>

\* admin_back_to_panel, from the side of user_data: 'waiting_broadcast'
\* and 'broadcast_message' are popped and the panel is shown
admin_back(u) ==
    /\ admin' = [admin EXCEPT
           !.waiting_broadcast[u] = FALSE,
           !.broadcast_message[u] = FALSE,
           !.user = u,
           !.reply = "admin_panel"]
    /\ UNCHANGED <<now, users, payments, subscriptions, handlers, calls,
                   manager, conv, check, bcast, start, sign>>

NextAdmin ==
    \/ \E u \in UserIds : admin_broadcast_start(u)
    \/ \E u \in UserIds, action \in AdminActions :
           admin_callback_handler(u, action)
    \/ \E u \in UserIds : handle_broadcast_message(u)
    \/ \E u \in UserIds : admin_broadcast_confirm(u)
    \/ \E u \in UserIds : admin_back(u)

SpecAdmin == Init /\ [][NextAdmin]_vars

(* ------------------------ the request signature --------------------- *)
\* the keys and values of the dict built by CryptomusPayment.check_payment
FieldNames == {"merchant", "uuid"}

FieldValues == {"m1", "p1"}

ApiKeys == {"key_a", "key_b"}

\* a dict: its items in insertion order, no key twice
Requests ==
    {d \in UNION {[1..n -> FieldNames \X FieldValues] :
                      n \in 0..Cardinality(FieldNames)} :
        \A i, j \in DOMAIN d : d[i][1] = d[j][1] => i = j}

\* the members of the JSON object, in the order of the dict's items,
\* with the separators ',' and ':'
RECURSIVE json_members(_)
json_members(d) ==
    IF d = <<>> THEN <<>>
    ELSE IF Len(d) = 1 THEN <<d[1][1], ":", d[1][2]>>
    ELSE <<d[1][1], ":", d[1][2], ",">> \o json_members(Tail(d))

\* json.dumps(data, separators=(',', ':'), ensure_ascii=False): no sort_keys
json_dumps(d) == <<"{">> \o json_members(d) \o <<"}">>

\* hmac.new(key, msg, hashlib.md5).hexdigest(): a function of the key and
\* the bytes, taken without collisions
hmac_md5(key, msg) == [key |-> key, msg |-> msg]

\* CryptomusPayment._generate_signature
generate_signature(api_key, data) == hmac_md5(api_key, json_dumps(data))

\* one call of _generate_signature on a request
sign_request(data) ==
    /\ Len(sign.calls) < MaxSignatures
    /\ sign' = [sign EXCEPT !.calls =
           Append(@, [data |-> data,
                      signature |-> generate_signature(sign.api_key, data)])]
    /\ UNCHANGED <<now, users, payments, subscriptions, handlers, calls,
                   manager, conv, check, bcast, start,
                   admin>>

\* Config.CRYPTOMUS_API_KEY is any key
InitSign ==
    /\ InitStore
    /\ manager = MethodChoices
    /\ conv = IdleConv
    /\ check = IdleCheck
    /\ bcast = IdleBroadcast
    /\ start = IdleStart
    /\ sign \in {[IdleSign EXCEPT !.api_key = k] : k \in ApiKeys}
    /\ admin = IdleAdmin

NextSign == \E data \in Requests : sign_request(data)

SpecSign == InitSign /\ [][NextSign]_vars

(* --------------------------- the broadcast --------------------------- *)
\* `if not broadcast_message:` nothing to send
bc_no_message ==
    /\ bcast.pc = "idle"
    /\ ~bcast.broadcast_message
    /\ bcast' = [bcast EXCEPT !.pc = "no_message"]
    /\ UNCHANGED <<now, users, payments, subscriptions, handlers, calls,
                   manager, conv, check, start, sign,
                   admin>>

\* users = session.query(User).all(); the counters are zeroed and the
\* start message is shown (if that edit raises, the handler raises)
bc_start(n, shown) ==
    /\ bcast.pc = "idle"
    /\ bcast.broadcast_message
    /\ bcast' = [bcast EXCEPT !.pc = IF shown THEN "loop" ELSE "raised",
                              !.total_users = n]
    /\ UNCHANGED <<now, users, payments, subscriptions, handlers, calls,
                   manager, conv, check, start, sign,
                   admin>>

\* mutant of bc_send: a failed send ends the loop
bc_send_abort(delivered) ==
    /\ bcast.pc = "loop"
    /\ bcast.i < bcast.total_users
    /\ bcast' = [bcast EXCEPT
           !.attempts = Append(@, bcast.i + 1),
           !.slept = delivered /\ (bcast.i + 1) % ProgressEvery # 0,
           !.sent_count = IF delivered THEN @ + 1 ELSE @,
           !.ok_sends = IF delivered THEN @ + 1 ELSE @,
           !.failed_count = IF delivered THEN @ ELSE @ + 1,
           !.bad_sends = IF delivered THEN @ ELSE @ + 1,
           !.pc = IF delivered /\ (bcast.i + 1) % ProgressEvery = 0
                  THEN "progress" ELSE "loop",
           !.i = IF ~delivered THEN bcast.total_users
                 ELSE IF (bcast.i + 1) % ProgressEvery = 0 THEN @ ELSE @ + 1]
    /\ UNCHANGED <<now, users, payments, subscriptions, handlers, calls,
                   manager, conv, check, start, sign,
                   admin>>

\* one `await context.bot.send_message(...)` of the loop: sent_count += 1
\* and, unless a progress edit is due, `await asyncio.sleep(0.1)`; or the
\* exception is caught and failed_count += 1
bc_send(delivered) ==
    /\ bcast.pc = "loop"
    /\ bcast.i < bcast.total_users
    /\ bcast' = [bcast EXCEPT
           !.attempts = Append(@, bcast.i + 1),
           !.slept = delivered /\ (bcast.i + 1) % ProgressEvery # 0,
           !.sent_count = IF delivered THEN @ + 1 ELSE @,
           !.ok_sends = IF delivered THEN @ + 1 ELSE @,
           !.failed_count = IF delivered THEN @ ELSE @ + 1,
           !.bad_sends = IF delivered THEN @ ELSE @ + 1,
           !.pc = IF delivered /\ (bcast.i + 1) % ProgressEvery = 0
                  THEN "progress" ELSE "loop",
           !.i = IF delivered /\ (bcast.i + 1) % ProgressEvery = 0
                 THEN @ ELSE @ + 1]
    /\ UNCHANGED <<now, users, payments, subscriptions, handlers, calls,
                   manager, conv, check, start, sign,
                   admin>>

\* `if (i + 1) % 50 == 0: await query.edit_message_text(...)` inside the
\* same try, then the sleep: if the edit raises, the except branch runs
bc_progress(edited) ==
    /\ bcast.pc = "progress"
    /\ bcast' = [bcast EXCEPT
           !.updates = Append(@, bcast.i + 1),
           !.slept = edited,
           !.failed_count = IF edited THEN @ ELSE @ + 1,
           !.pc = "loop",
           !.i = @ + 1]
    /\ UNCHANGED <<now, users, payments, subscriptions, handlers, calls,
                   manager, conv, check, start, sign,
                   admin>>

\* mutant of bc_finish: the report also clears the referral balances
bc_finish_clears_balances(edited) ==
    /\ bcast.pc = "loop"
    /\ bcast.i = bcast.total_users
    /\ bcast' = [bcast EXCEPT !.pc = IF edited THEN "done" ELSE "raised"]
    /\ users' = [u \in UserIds |-> [users[u] EXCEPT !.referral_balance = 0]]
    /\ UNCHANGED <<now, payments, subscriptions, handlers, calls,
                   manager, conv, check, start, sign,
                   admin>>

\* the loop is over: the report is shown and the action logged (if the
\* final edit raises, the handler raises)
bc_finish(edited) ==
    /\ bcast.pc = "loop"
    /\ bcast.i = bcast.total_users
    /\ bcast' = [bcast EXCEPT !.pc = IF edited THEN "done" ELSE "raised"]
    /\ UNCHANGED <<now, users, payments, subscriptions, handlers, calls,
                   manager, conv, check, start, sign,
                   admin>>

\* admin_back_to_panel: the stored broadcast text is dropped from
\* user_data; a running admin_broadcast_confirm holds the text in a local
\* and does not look at user_data again
admin_back_to_panel ==
    /\ bcast' = [bcast EXCEPT !.broadcast_message = FALSE]
    /\ UNCHANGED <<now, users, payments, subscriptions, handlers, calls,
                   manager, conv, check, start, sign,
                   admin>>

\* the sizes of session.query(User).all()
RecipientCounts == {0, 1, ProgressEvery, MaxRecipients}

\* the store after user 1 bought one month and the payment was verified
InitBroadcast ==
    LET p == NewPayment(1, "1_month", "yoomoney", 1, 0)
    IN /\ now = 0
       /\ users = CreditReferrer(AddSpent(InitUsers, p), p)
       /\ payments = <<MarkCompleted(p, 0)>>
       /\ subscriptions = <<NewSubscription(p, 0)>>
       /\ handlers = [h \in HandlerIds |-> IdleHandler]
       /\ calls = 1
       /\ manager = MethodChoices
       /\ conv = IdleConv
       /\ check = IdleCheck
       /\ bcast = IdleBroadcast
       /\ start = IdleStart
       /\ sign = IdleSign
       /\ admin = IdleAdmin

NextBroadcast ==
    \/ bc_no_message
    \/ \E n \in RecipientCounts, shown \in BOOLEAN : bc_start(n, shown)
    \/ \E delivered \in BOOLEAN : bc_send(delivered)
    \/ \E edited \in BOOLEAN : bc_progress(edited)
    \/ \E edited \in BOOLEAN : bc_finish(edited)
    \/ admin_back_to_panel

SpecBroadcast == InitBroadcast /\ [][NextBroadcast]_vars

(* --------------------------- specification --------------------------- *)
Next ==
    \/ Tick
    \/ \E u \in UserIds, plan_type \in PlanChoices, method \in MethodChoices,
          created \in BOOLEAN :
           process_payment(u, plan_type, method, created)
    \/ \E h \in HandlerIds, pid \in 1..(Len(payments) + 1) : verify_start(h, pid)
    \/ \E h \in HandlerIds : verify_not_found(h)
    \/ \E h \in HandlerIds : verify_expired(h)
    \/ \E h \in HandlerIds, built \in BOOLEAN : verify_completed(h, built)
    \/ \E h \in HandlerIds : verify_failed(h)
    \/ \E h \in HandlerIds, answer \in CanonicalStatuses : verify_pending(h, answer)
    \/ \E h \in HandlerIds, delivered \in BOOLEAN : verify_notify(h, delivered)
    \/ \E h \in HandlerIds, sent \in BOOLEAN : verify_reply(h, sent)

Spec == Init /\ [][Next]_vars

TypeOK ==
    /\ now \in Nat
    /\ calls \in 0..MaxCalls
    /\ Len(payments) <= MaxPayments
    /\ \A i \in DOMAIN payments :
          payments[i].status \in {"pending", "completed", "failed", "expired"}

(* ------------------------ vocabulary of claims ----------------------- *)
InFlight(h) == handlers[h].pc \notin {"idle", "done"}

\* handler h runs the code between `await query.answer` and its next await
\* (or its return) in this step
ChecksNow(h) ==
    /\ handlers[h].pc = "answered"
    /\ handlers'[h].pc # "answered"
    /\ handlers[h].payment_id \in DOMAIN payments

Target(h) == payments[handlers[h].payment_id]

TerminalStatuses == {"completed", "failed", "expired"}

\* the provider's check was invoked by the call handler h is (or was) running
ProviderCalled(hrec) == hrec.payment_status # "none"

SubsOf(u) == {i \in DOMAIN subscriptions : subscriptions[i].user_id = u}

ActiveSubsOf(u) ==
    {i \in SubsOf(u) :
        subscriptions[i].is_active /\ ~sub_is_expired(subscriptions[i], now)}

(* ------------------------------- C1 ---------------------------------- *)
\* no call has run in another slot so far: a slot is taken only while the
\* slots below it are busy, and a slot that was used ends in "done"
Sequential(h) == \A g \in HandlerIds \ {h} : handlers[g].pc = "idle"

\* C1: with verify_payment calls made one after the other, a call on an
\* intent whose stored status is already completed changes nothing in the
\* store (so any number of calls leaves one subscription, one referral
\* credit and one total-spent increment).
C1_RepeatedVerifyIsNoOp ==
    [][\A h \in HandlerIds :
          (/\ ChecksNow(h)
           /\ Target(h).status = "completed"
           /\ Sequential(h))
          => UNCHANGED store]_vars

(* ------------------------------- C2 ---------------------------------- *)
\* C2: two verify_payment calls in flight together on the same intent never
\* both perform the activation.
C2_OneConcurrentActivation ==
    \A h, g \in HandlerIds :
        (/\ h # g
         /\ InFlight(h) /\ InFlight(g)
         /\ handlers[h].payment_id = handlers[g].payment_id)
        => ~(handlers[h].subscription # NULL /\ handlers[g].subscription # NULL)

(* ------------------------------- C3 ---------------------------------- *)
\* C3: in every state of the store each user has at most one subscription
\* that is active and not past its end date; indeed at most one with
\* is_active set, and it is the user's newest one (the activation that
\* created it deactivated the older ones in the same commit).
C3_OneActiveSubscription ==
    \A u \in UserIds :
        /\ Cardinality(ActiveSubsOf(u)) <= 1
        /\ \A i \in SubsOf(u) :
              subscriptions[i].is_active => \A j \in SubsOf(u) : j <= i

C3_Superseded ==
    \E u \in UserIds : \E i, j \in SubsOf(u) :
        /\ i < j
        /\ ~subscriptions[i].is_active
        /\ subscriptions[j].is_active
        /\ ActiveSubsOf(u) = {j}

(* ------------------------------- C4 ---------------------------------- *)
\* C4: a payment whose stored status is completed, failed or expired keeps
\* that status in every later step, and a pending one only moves to
\* completed, failed or expired.
C4_StatusMonotonic ==
    [][\A i \in DOMAIN payments :
          /\ payments[i].status \in TerminalStatuses
                => payments'[i].status = payments[i].status
          /\ payments[i].status = "pending"
                => payments'[i].status \in TerminalStatuses \cup {"pending"}]_vars

(* ------------------------------- C5 ---------------------------------- *)
\* the message that reports a stored terminal outcome
OutcomeMessage(status) ==
    CASE status = "completed" -> "payment_success"
      [] status = "failed" -> "payment_failed"
      [] OTHER -> "error_payment_timeout"

\* C5: verify_payment on an intent whose stored status is terminal does not
\* call the provider's check and answers with the stored outcome, whatever
\* the clock says.
C5_TerminalVerifyReadsStore ==
    [][\A h \in HandlerIds :
          (ChecksNow(h) /\ Target(h).status \in TerminalStatuses)
          => /\ ~ProviderCalled(handlers'[h])
             /\ handlers'[h].message = OutcomeMessage(Target(h).status)]_vars

(* ------------------------------- C6 ---------------------------------- *)
\* handler h is about to run its check on a pending intent past expires_at
ExpiredPending(h) ==
    /\ Target(h).status = "pending"
    /\ now > Target(h).expires_at

C7_ExpiredShortCircuit ==
    [][\A h \in HandlerIds :
          (ChecksNow(h) /\ ExpiredPending(h))
          => /\ ~ProviderCalled(handlers'[h])
             /\ handlers'[h].subscription = NULL
             /\ UNCHANGED store]_vars

\* an expired intent the provider knows (and could report as paid) was
\* verified, and its user still has no subscription
C7_ExpiredNotActivated ==
    \E h \in HandlerIds :
        /\ handlers[h].pc = "done"
        /\ handlers[h].message = "error_payment_timeout"
        /\ ~ProviderCalled(handlers[h])
        /\ handlers[h].subscription = NULL
        /\ \E i \in DOMAIN payments :
              LET p == payments[i]
              IN /\ p.status = "pending"
                 /\ p.payment_id # NULL
                 /\ now > p.expires_at
                 /\ SubsOf(p.user_id) = {}
                 /\ users[p.user_id].total_spent = 0

(* ------------------------------- C8 ---------------------------------- *)
\* handler h is about to run its check on a pending intent that has not
\* passed expires_at
FreshPending(h) ==
    /\ Target(h).status = "pending"
    /\ ~(now > Target(h).expires_at)

C9_FailedChangesStatusOnly ==
    [][\A h \in HandlerIds :
          (/\ ChecksNow(h)
           /\ FreshPending(h)
           /\ handlers'[h].payment_status = "failed")
          => /\ payments' = [payments EXCEPT
                    ![handlers[h].payment_id].status = "failed"]
             /\ payments' # payments
             /\ UNCHANGED <<users, subscriptions>>]_vars

C9_Failed ==
    \E h \in HandlerIds :
        /\ handlers[h].pc = "done"
        /\ handlers[h].payment_status = "failed"
        /\ handlers[h].message = "payment_failed"
        /\ \E i \in DOMAIN payments :
              /\ payments[i].status = "failed"
              /\ payments[i].completed_at = NULL

(* ------------------------------- C10 --------------------------------- *)
\* C10: when verify_payment runs on a pending, non-expired intent and the
\* provider answers pending or unknown, the intent stays pending and no
\* payment, subscription or user row changes.
C10_PendingChangesNothing ==
    [][\A h \in HandlerIds :
          (/\ ChecksNow(h)
           /\ FreshPending(h)
           /\ handlers'[h].payment_status \in {"pending", "unknown"})
          => /\ payments'[handlers[h].payment_id].status = "pending"
             /\ UNCHANGED store]_vars

C10_StillPending ==
    \E h \in HandlerIds :
        /\ handlers[h].pc = "done"
        /\ handlers[h].payment_status = "unknown"
        /\ handlers[h].message = "payment_pending"
        /\ \E i \in DOMAIN payments :
              /\ payments[i].status = "pending"
              /\ payments[i].payment_id # NULL

(* ------------------------------- C11 --------------------------------- *)
\* the row process_payment committed for the order it is working on
Intent == payments[conv.payment]

\* the intent of the running process_payment is stored, pending, without
\* external id, and expires PaymentLifetimeMinutes after t
PendingRecord(t) ==
    /\ conv.payment \in DOMAIN payments
    /\ Intent.status = "pending"
    /\ Intent.user_id = conv.user_id
    /\ Intent.plan_type = conv.selected_plan
    /\ Intent.payment_id = NULL
    /\ Intent.expires_at = t + PaymentLifetimeMinutes * SecondsPerMinute

\* C11: process_payment commits a pending record with expires_at = now + 15
\* minutes before the provider's create is called: the commit step stores
\* it with the provider not yet called, and whenever the provider's create
\* is invoked, or the handler stops between the two steps, that pending
\* record is already in the store.
C11_RecordBeforeCreate ==
    [][/\ (conv.pc = "answered" /\ conv'.pc = "committed")
            => /\ conv'.provider = "not_called"
               /\ Len(payments') = Len(payments) + 1
               /\ conv'.payment = Len(payments')
               /\ payments'[conv'.payment].status = "pending"
               /\ payments'[conv'.payment].expires_at =
                      now + PaymentLifetimeMinutes * SecondsPerMinute
       /\ (conv.provider = "not_called" /\ conv'.provider # "not_called")
            => PendingRecord(Intent.created_at)
       /\ (conv.pc # "stopped" /\ conv'.pc = "stopped")
            => PendingRecord(Intent.created_at)]_vars

\* the handler stopped after the commit: the provider was never called and
\* the pending record is there
C11_StoppedAfterCommit ==
    /\ conv.pc = "stopped"
    /\ conv.provider = "not_called"
    /\ PendingRecord(Intent.created_at)
    /\ Intent.expires_at > now

(* ------------------------------- C12 --------------------------------- *)
\* the provider's create fails in this step
CreateFails ==
    /\ conv.pc = "committed"
    /\ conv'.provider = "failed"

\* C12: whenever the provider's create call fails for an intent,
\* process_payment leaves the intent with stored status failed, shows an
\* error message to the user and does not raise.
C12_CreateFailureMarksFailed ==
    [][CreateFails
        => /\ payments'[conv.payment].status = "failed"
           /\ conv'.message = "payment_error"
           /\ conv'.raised = "none"
           /\ conv'.pc = "idle"]_vars

(* ------------------------------- C13 --------------------------------- *)
\* C13: for a plan identifier that is not a key of SUBSCRIPTION_PLANS, the
\* plan selection and process_payment persist no payment record, never call
\* a provider, and end the conversation with an error shown to the user,
\* not with an exception that leaves the handler.
C13_UnknownPlanRejected ==
    [][/\ \A plan_type \in PlanCallbacks \ DOMAIN SUBSCRIPTION_PLANS :
             (conv.pc = "idle" /\ conv'.pc = "idle"
              /\ conv'.selected_plan = plan_type
              /\ conv' # conv /\ conv'.message # "choose_plan")
             => /\ payments' = payments
                /\ conv'.provider = conv.provider
                /\ conv'.state = "END"
                /\ conv'.message = "invalid_plan"
                /\ conv'.raised = "none"
       /\ (/\ conv.pc = "answered"
           /\ conv.selected_plan # "none"
           /\ conv.selected_plan \notin DOMAIN SUBSCRIPTION_PLANS
           /\ conv'.pc # "answered")
            => /\ payments' = payments
               /\ conv'.provider = "not_called"
               /\ conv'.pc = "idle"
               /\ conv'.state = "END"
               /\ conv'.message \in {"invalid_plan", "error_general"}
               /\ conv'.raised = "none"]_vars

(* ------------------------------- C14 --------------------------------- *)
\* C14: the amount stored on an intent created by process_payment is the
\* plan price times 100, a non-negative integer of minor units, for every
\* configured plan, and a stored amount is never modified afterwards.
C14_AmountInKopecks ==
    [][/\ \A i \in DOMAIN payments' :
             /\ payments'[i].amount \in Nat
             /\ payments'[i].amount =
                    SUBSCRIPTION_PLANS[payments'[i].plan_type].price * 100
       /\ \A i \in DOMAIN payments :
             /\ payments'[i].amount = payments[i].amount
             /\ payments'[i].plan_type = payments[i].plan_type
       /\ \A q \in PlanTypes :
             NewPayment(1, q, "yoomoney", NULL, now).amount =
                 SUBSCRIPTION_PLANS[q].price * 100]_vars

\* a 299-ruble intent went through its activation and still holds 29900
C14_KopecksKept ==
    \E i \in DOMAIN payments :
        /\ payments[i].plan_type = "1_month"
        /\ payments[i].status = "completed"
        /\ payments[i].amount = 29900

(* ------------------------------- C15 --------------------------------- *)
\* the integer n as the value of a Float column
Float(n) == n * FloatScale

\* handler h performs an activation in this step
Activates(h) ==
    /\ ChecksNow(h)
    /\ Len(subscriptions') = Len(subscriptions) + 1

\* C15: when an activation happens for a payer who has a referrer, the
\* referrer's referral balance increases by exactly
\* floor(amount * bonusPercent / 100), amount in minor units (29900 at 10
\* percent credits 2990), and no other user's referral balance changes;
\* when the payer has no referrer, no referral balance changes.
C15_ReferralCredit ==
    [][\A h \in HandlerIds :
          Activates(h)
          => LET p == Target(h)
                 r == users[p.user_id].referrer_id
             IN IF r \in UserIds
                THEN /\ users'[r].referral_balance =
                           users[r].referral_balance
                           + Float((p.amount * REFERRAL_BONUS_PERCENT) \div 100)
                     /\ \A u \in UserIds \ {r} :
                           users'[u].referral_balance =
                               users[u].referral_balance
                ELSE \A u \in UserIds :
                        users'[u].referral_balance = users[u].referral_balance]_vars

(* ------------------------------- C16 --------------------------------- *)
RECURSIVE CompletedAmount(_, _)
\* the sum of the amounts of the completed intents of user u among the
\* first n payments
CompletedAmount(u, n) ==
    IF n = 0 THEN 0
    ELSE CompletedAmount(u, n - 1)
         + (IF payments[n].user_id = u /\ payments[n].status = "completed"
            THEN payments[n].amount ELSE 0)

\* C16: in every reachable state a user's total_spent equals the sum of the
\* amounts of that user's completed intents, in the minor unit of
\* Payment.amount (each activation adds exactly the intent's stored amount).
C16_TotalSpentIsSum ==
    \A u \in UserIds :
        users[u].total_spent = Float(CompletedAmount(u, Len(payments)))

(* ------------------------------- C17 --------------------------------- *)
\* the native statuses a provider variant maps to completed or failed
MappingTable(method) ==
    CASE method = "yoomoney" -> {"success", "refused", "failed"}
      [] method = "qiwi" -> {"PAID", "REJECTED", "EXPIRED"}
      [] method = "crypto" -> {"paid", "fail", "cancel", "system_fail"}
      [] OTHER -> {}

\* the call was answered by the configured provider of its method
ProviderAnswered ==
    /\ check.pc = "returned"
    /\ check.method \in PaymentMethods \cap manager
    /\ check.response.transport = "ok"

\* C17: for each provider variant check_payment returns one of completed,
\* failed, pending, unknown, and a native status that is not in the
\* variant's mapping table, a missing status field included, is returned
\* as unknown.
C17_UnmappedIsUnknown ==
    /\ check.pc = "returned" => check.result \in CanonicalStatuses
    /\ (ProviderAnswered
         /\ check.response.status \notin MappingTable(check.method))
        => check.result = "unknown"

(* ------------------------------- C18 --------------------------------- *)
\* the provider's answer carries its exact success status
ExactSuccess(method, resp) ==
    CASE method = "yoomoney" -> resp.status = "success"
      [] method = "qiwi" -> resp.status = "PAID"
      [] method = "crypto" -> resp.state = 0 /\ resp.status = "paid"
      [] OTHER -> FALSE

C19_EveryRecipientAttempted ==
    [][/\ bcast'.attempts = [k \in 1..Len(bcast'.attempts) |-> k]
       /\ Len(bcast'.attempts) <= bcast'.total_users
       /\ bcast'.bad_sends > bcast.bad_sends
            => /\ bcast'.pc = "loop"
               /\ bcast'.i = bcast.i + 1
               /\ Len(bcast'.attempts) = bcast'.i
       /\ (bcast.pc = "loop" /\ bcast'.pc \in {"done", "raised"})
            => Len(bcast'.attempts) = bcast'.total_users]_vars

\* a broadcast to the largest list, ten of whose sends failed, is done
C19_DoneDespiteFailures ==
    /\ bcast.pc = "done"
    /\ bcast.total_users = MaxRecipients
    /\ bcast.bad_sends = 10
    /\ Len(bcast.attempts) = MaxRecipients

(* ------------------------------- C20 --------------------------------- *)
\* C20: sent equals the number of recipients whose send succeeded, failed
\* the number of recipients whose send failed, at every point of the loop
\* sent + failed is the number of recipients attempted so far, and when
\* the broadcast finishes sent + failed = total = number of recipients.
C20_ReportCounts ==
    bcast.pc \in {"loop", "progress", "done"}
    => /\ bcast.sent_count = bcast.ok_sends
       /\ bcast.failed_count = bcast.bad_sends
       /\ bcast.sent_count + bcast.failed_count = Len(bcast.attempts)
       /\ bcast.pc = "done"
            => bcast.sent_count + bcast.failed_count = bcast.total_users

(* ------------------------------- C21 --------------------------------- *)
\* C21: during a broadcast the progress message is edited after every 50th
\* send attempt (attempts 50, 100, ...), whether or not that attempt
\* succeeded.
C21_ProgressEveryFifty ==
    bcast.pc \in {"loop", "done"}
    => \A k \in 1..bcast.i :
          k % ProgressEvery = 0
          => \E j \in DOMAIN bcast.updates : bcast.updates[j] = k

(* ------------------------------- C22 --------------------------------- *)
\* C22: between any two consecutive send attempts of a broadcast the
\* pacing delay elapses, whether the earlier attempt succeeded or failed.
C22_PacedSends ==
    [][(Len(bcast'.attempts) > Len(bcast.attempts) /\ Len(bcast.attempts) >= 1)
       => bcast.slept]_vars

(* ------------------------------- C23 --------------------------------- *)
\* C23: once the admin has asked to leave the broadcast (the stored text
\* is dropped) while the loop runs, no further recipient is attempted.
C23_CancelStopsSends ==
    [][(bcast.pc \in {"loop", "progress"} /\ ~bcast.broadcast_message)
       => bcast'.attempts = bcast.attempts]_vars

(* ------------------------------- C30 --------------------------------- *)
\* C30: no step of a broadcast changes a payment, a subscription or a
\* user's balance, spending or referral fields.
C30_BroadcastKeepsStore ==
    [][bcast' # bcast => UNCHANGED store]_vars

\* a broadcast to the largest list is done and the store still holds the
\* completed payment, its active subscription and the referrer's credit
C30_DoneWithStore ==
    /\ bcast.pc = "done"
    /\ bcast.total_users = MaxRecipients
    /\ \E i \in DOMAIN payments : payments[i].status = "completed"
    /\ \E i \in DOMAIN subscriptions : subscriptions[i].is_active
    /\ users[1].total_spent > 0
    /\ users[2].referral_balance > 0

(* ------------------------------- C25 --------------------------------- *)
\* C25: when the notification of the referrer fails during an activation,
\* the handler goes on to its reply and nothing stored is changed: the
\* payment stays as committed, the subscription stays and the referral
\* credit stays.
C25_NotifyFailureKeepsActivation ==
    [][\A h \in HandlerIds :
          handlers[h].pc = "notify" /\ handlers'[h] # handlers[h]
          => /\ handlers'[h].pc = "reply"
             /\ handlers'[h].payment_id = handlers[h].payment_id
             /\ UNCHANGED store]_vars

\* the notification failed and the activation is stored: the payment is
\* completed, its subscription is active and the referrer was credited
C25_ActivatedUnnotified ==
    \E h \in HandlerIds :
        /\ handlers[h].pc = "reply"
        /\ handlers[h].notified = "failed"
        /\ handlers[h].payment_id \in DOMAIN payments
        /\ payments[handlers[h].payment_id].status = "completed"
        /\ handlers[h].subscription \in DOMAIN subscriptions
        /\ subscriptions[handlers[h].subscription].is_active
        /\ users[users[payments[handlers[h].payment_id].user_id].referrer_id]
               .referral_balance > 0

(* ------------------------------- C26 --------------------------------- *)
\* C26: in every reachable state each subscription belongs to a user who
\* has a payment of the same plan whose stored status is completed.
C26_SubscriptionHasCompletedIntent ==
    \A i \in DOMAIN subscriptions :
        \E j \in DOMAIN payments :
            /\ payments[j].user_id = subscriptions[i].user_id
            /\ payments[j].plan_type = subscriptions[i].plan_type
            /\ payments[j].status = "completed"

(* ------------------------------- C28 --------------------------------- *)
\* C28: a payment is created pending; in every state it expires 15 minutes
\* after it was created, hence strictly later; no operation removes a
\* payment or changes its created_at or expires_at.
C28_IntentTimestamps ==
    [][/\ \A i \in DOMAIN payments' :
             /\ payments'[i].expires_at =
                    payments'[i].created_at
                    + PaymentLifetimeMinutes * SecondsPerMinute
             /\ payments'[i].expires_at > payments'[i].created_at
             /\ i \notin DOMAIN payments => payments'[i].status = "pending"
       /\ \A i \in DOMAIN payments :
             /\ i \in DOMAIN payments'
             /\ payments'[i].created_at = payments[i].created_at
             /\ payments'[i].expires_at = payments[i].expires_at]_vars

\* a payment completed some time after its creation still has the
\* timestamps it was created with
C28_CompletedLater ==
    \E i \in DOMAIN payments :
        /\ payments[i].status = "completed"
        /\ payments[i].completed_at > payments[i].created_at
        /\ payments[i].expires_at =
               payments[i].created_at + PaymentLifetimeMinutes * SecondsPerMinute

(* ------------------------------- C29 --------------------------------- *)
\* C29: when verify_payment checks a pending payment with now <= expires_at
\* and the provider answers pending or unknown, the caller is shown the
\* remaining time with the retry button, never the timeout message.
C29_RemainingTimeShown ==
    [][\A h \in HandlerIds :
          (/\ ChecksNow(h)
           /\ Target(h).status = "pending"
           /\ now <= Target(h).expires_at
           /\ handlers'[h].payment_status \in {"pending", "unknown"})
          => handlers'[h].message = "payment_pending"]_vars

(* ------------------------------- C27 --------------------------------- *)
\* the logical content of a request: its set of field/value pairs
PairsOf(d) == {d[i] : i \in DOMAIN d}

C24_ReferrerSetOnce ==
    [][\A u \in DOMAIN users :
          /\ users[u].referrer_id # NULL
               => users'[u].referrer_id = users[u].referrer_id
          /\ users'[u].referrer_id # users[u].referrer_id
               => users'[u].referrer_id \in DOMAIN users]_vars

\* user 1, referred by user 2, has sent /start with the valid code of
\* user 3 and is still referred by user 2
C24_StartWithOtherCode ==
    /\ start.pc = "reply"
    /\ start.user_id = 1
    /\ start.code = 3
    /\ start.readable
    /\ users[1].referrer_id = 2

Available(method) ==
    \E i \in DOMAIN get_available_methods(manager) :
        get_available_methods(manager)[i] = method

\* C38: for a method get_available_methods does not list, check_payment
\* returns 'unknown' and create_payment raises PaymentError, both without
\* calling a provider; create_payment returns a payment only for a listed
\* method.
C38_UnavailableFailsClosed ==
    /\ (check.pc = "returned" /\ ~Available(check.method))
         => (check.result = "unknown" /\ check.contacted = "none")
    /\ (check.pc = "create_returned" /\ ~Available(check.method))
         => (check.result = "PaymentError" /\ check.contacted = "none")
    /\ (check.pc = "create_returned" /\ check.result = "payment")
         => Available(check.method)

\* create_payment was called for qiwi, which has no token, while two
\* other providers are configured: PaymentError, no provider called
C38_UnconfiguredRefused ==
    /\ check.pc = "create_returned"
    /\ check.method = "qiwi"
    /\ manager = {"yoomoney", "crypto"}
    /\ check.result = "PaymentError"
    /\ check.contacted = "none"

(* ------------------------------- C39 --------------------------------- *)
\* C39: when process_payment ends it has returned WAITING_PAYMENT, with a
\* committed pending payment that has its external id and is the
\* session's current payment, or it has returned END; and the plan
\* selection returns SELECTING_PAYMENT_METHOD only for a configured plan.
C39_ConversationStates ==
    [][/\ (conv.pc # "idle" /\ conv'.pc = "idle")
            => /\ conv'.raised = "none"
               /\ \/ conv'.state = "END"
                  \/ /\ conv'.state = "WAITING_PAYMENT"
                     /\ conv'.payment \in DOMAIN payments'
                     /\ payments'[conv'.payment].status = "pending"
                     /\ payments'[conv'.payment].payment_id # NULL
       /\ (/\ conv.pc = "idle" /\ conv'.pc = "idle" /\ conv' # conv
           /\ conv'.state = "SELECTING_PAYMENT_METHOD")
            => conv'.selected_plan \in DOMAIN SUBSCRIPTION_PLANS]_vars

(* ------------------------------- C35 --------------------------------- *)
\* C35: a broadcast is dispatched only for an issuer who is an admin, has
\* passed an is_admin check, ran admin_broadcast_start and then had a text
\* captured by handle_broadcast_message; nothing is ever dispatched for a
\* user who is not in ADMIN_IDS.
C35_OnlyAdminBroadcasts ==
    [][\A u \in UserIds :
          /\ admin'.dispatched[u] > admin.dispatched[u]
               => /\ is_admin(u)
                  /\ admin.checked[u]
                  /\ admin.started[u]
                  /\ admin.captures[u] > 0
          /\ ~is_admin(u)
               => (admin'.dispatched[u] = 0 /\ ~admin'.broadcast_message[u])]_vars

\* the admin has dispatched a broadcast; user 2, who is no admin, ran
\* admin_broadcast_start, is waiting, and the confirm they asked for found
\* no message
C35_OutsiderRefused ==
    /\ admin.dispatched[1] = 1
    /\ admin.started[2]
    /\ admin.waiting_broadcast[2]
    /\ admin.user = 2
    /\ admin.reply = "not_found"
    /\ admin.dispatched[2] = 0

(* ------------------------------- C36 --------------------------------- *)
\* C36: a captured text is dispatched at most once: no user has
\* dispatched more broadcasts than texts were captured from them.
C36_DispatchedOnce ==
    \A u \in UserIds : admin.dispatched[u] <= admin.captures[u]

(* ------------------------------- C31 --------------------------------- *)
\* C31: a verify_payment call that commits anything for a completed answer
\* commits everything at once: the completed status with completed_at,
\* the new subscription with the payer's older ones deactivated, the
\* total_spent increment and the referral credit; a call that fails while
\* building them commits nothing and leaves the intent as it was.
C31_AllOrNothing ==
    [][\A h \in HandlerIds :
          ChecksNow(h)
          => LET pid == handlers[h].payment_id
                 p == payments[pid]
             IN /\ (/\ handlers'[h].payment_status = "completed"
                     /\ \/ payments' # payments
                        \/ subscriptions' # subscriptions
                        \/ users' # users)
                      => /\ payments' =
                               [payments EXCEPT ![pid] = MarkCompleted(p, now)]
                         /\ subscriptions' =
                               Append(DeactivateOld(subscriptions, p.user_id),
                                      NewSubscription(p, now))
                         /\ users' = CreditReferrer(AddSpent(users, p), p)
                /\ handlers'[h].message = "error_general"
                      => UNCHANGED store]_vars

\* the provider answered completed and building the subscription failed:
\* the intent is still pending, nothing was spent, credited or created
C31_FailedActivation ==
    /\ \E h \in HandlerIds :
          /\ handlers[h].pc = "done"
          /\ handlers[h].payment_status = "completed"
          /\ handlers[h].message = "error_general"
    /\ subscriptions = <<>>
    /\ \E i \in DOMAIN payments :
          payments[i].status = "pending" /\ payments[i].completed_at = NULL
    /\ \A u \in UserIds :
          users[u].total_spent = 0 /\ users[u].referral_balance = 0

(* ------------------------------- C32 --------------------------------- *)
\* C32: when verify_payment notifies the referrer or sends the success
\* message with the configuration, the call has already committed its
\* subscription, the completed_at of the payment and, for the
\* notification, the referral credit.
C32_NotifyAfterCommit ==
    [][\A h \in HandlerIds :
          /\ (handlers[h].pc = "notify" /\ handlers'[h].pc # "notify")
               => /\ handlers[h].subscription \in DOMAIN subscriptions
                  /\ payments[handlers[h].payment_id].completed_at # NULL
                  /\ HasReferrer(users, payments[handlers[h].payment_id].user_id)
                  /\ users[users[payments[handlers[h].payment_id].user_id]
                              .referrer_id].referral_balance > 0
          /\ (handlers[h].pc = "reply" /\ handlers'[h].pc # "reply")
               => /\ handlers[h].subscription \in DOMAIN subscriptions
                  /\ payments[handlers[h].payment_id].completed_at # NULL
                  /\ users[payments[handlers[h].payment_id].user_id]
                        .total_spent > 0]_vars

\* the referrer was notified and the success message is about to be
\* sent, after the commit
C32_NotifiedAfterCommit ==
    \E h \in HandlerIds :
        /\ handlers[h].pc = "reply"
        /\ handlers[h].notified = "delivered"
        /\ handlers[h].subscription \in DOMAIN subscriptions
        /\ payments[handlers[h].payment_id].status = "completed"

(* ------------------------------- C33 --------------------------------- *)
\* C33: a verify_payment call that ends with the general error message
\* has committed nothing: it holds no subscription it created.
C33_ErrorChangesNothing ==
    [][\A h \in HandlerIds :
          (handlers'[h].message = "error_general"
           /\ handlers[h].message # "error_general")
          => handlers[h].subscription = NULL]_vars

(* ------------------------------- C34 --------------------------------- *)
\* C34: the success message with the configuration file and the QR image
\* goes to the chat of the user who owns the payment.
C34_ConfigToOwner ==
    [][\A h \in HandlerIds :
          (/\ handlers[h].pc = "reply"
           /\ handlers'[h].message = "payment_success")
          => effective_user(h) = payments[handlers[h].payment_id].user_id]_vars

==========================================================================
